---- MODULE Spec2Model ----
(***************************************************************************)
(* Model of class dynArray ("Lesson5 Task/Lesson5 Task.cpp"): a            *)
(* std::vector<std::string> filled by splitting a string with              *)
(* std::getline, with add, print, resize, size and a bounds-checked        *)
(* operator[].                                                             *)
(*                                                                         *)
(* A std::string is a sequence of characters; a character is a             *)
(* one-character TLA+ string.  Indices of the C++ code are 0-based, TLA+   *)
(* sequences are 1-based: element i of the vector is data[i + 1].          *)
(***************************************************************************)
EXTENDS Integers, Sequences, FiniteSets

\* ---------------------------------------------------------------- bounds
\* longest source string drawn for the splitting constructor
MaxText == 3
\* longest vector the operations may build
MaxLen == 4
\* largest array size drawn for resizeArray besides the sizes main() uses
MaxArr == 3

\* ------------------------------------------------------------ characters
NL == "\n"
SP == " "
Alphabet == {"a", ","}
Separators == {",", " "}

One == <<"o", "n", "e">>
Two == <<"t", "w", "o">>
Three == <<"t", "h", "r", "e", "e">>
Four == <<"f", "o", "u", "r">>
AndThree == <<"a", "n", "d", " ">> \o Three
Empty == <<>>

\* the two strings main() splits
MainText1 == One \o <<SP>> \o Two \o <<SP>> \o Three
MainText2 == One \o <<",">> \o Two \o <<",">> \o AndThree

Strings(n) == UNION {[1..k -> Alphabet] : k \in 0..n}
Texts == Strings(MaxText) \cup {MainText1, MainText2}
\* values passed to add() and assigned through operator[]
Elements == {Empty, Four}
\* size_t arguments of resize() and operator[]
Sizes == 0..MaxLen
Indices == 0..(MaxLen + 1)

VARIABLES data, call, res, scn, base, appends
vars == <<data, call, res, scn, base, appends>>

\* The program of "Lesson5/Lesson5.cpp" (resizeArray and its main):
\* pc is the statement about to run, heap the arrays made by new[], array and
\* newArr the two pointers, loopI the loop counter, printed what main wrote
\* to std::cout; uninitRead and badAccess record a read of an element never
\* assigned and an access to an array that is not live.
VARIABLES pc, m_oldSize, m_newSize, heap, array, newArr, loopI, printed,
          uninitRead, badAccess
rvars == <<pc, m_oldSize, m_newSize, heap, array, newArr, loopI, printed,
           uninitRead, badAccess>>
allvars == <<vars, rvars>>

\* ------------------------------------------------------ std::getline
\* First position >= pos holding the delimiter, or Len(s) + 1.
RECURSIVE FindDelim(_, _, _)
FindDelim(s, pos, delim) ==
    IF pos > Len(s) THEN Len(s) + 1
    ELSE IF s[pos] = delim THEN pos
    ELSE FindDelim(s, pos + 1, delim)

\* mutant: the character before the delimiter is lost
getline_short(s, pos, delim) ==
    IF pos > Len(s)
    THEN [ok |-> FALSE, token |-> Empty, pos |-> pos]
    ELSE LET stop == FindDelim(s, pos, delim)
         IN  [ok |-> TRUE, token |-> SubSeq(s, pos, stop - 2), pos |-> stop + 1]

\* mutant: runs of delimiters are skipped before a token (strtok-like)
RECURSIVE SkipDelims(_, _, _)
SkipDelims(s, pos, delim) ==
    IF pos <= Len(s) /\ s[pos] = delim THEN SkipDelims(s, pos + 1, delim) ELSE pos

getline_skip(s, pos, delim) ==
    LET p == SkipDelims(s, pos, delim)
    IN  IF p > Len(s)
        THEN [ok |-> FALSE, token |-> Empty, pos |-> p]
        ELSE LET stop == FindDelim(s, p, delim)
             IN  [ok |-> TRUE, token |-> SubSeq(s, p, stop - 1), pos |-> stop + 1]

\* mutant: the delimiter is left at the end of the token
getline_keep(s, pos, delim) ==
    IF pos > Len(s)
    THEN [ok |-> FALSE, token |-> Empty, pos |-> pos]
    ELSE LET stop == FindDelim(s, pos, delim)
             last == IF stop > Len(s) THEN Len(s) ELSE stop
         IN  [ok |-> TRUE, token |-> SubSeq(s, pos, last), pos |-> stop + 1]

\* std::getline(ss, token, separator) on a stream over s whose read position
\* is pos: at end of input nothing is extracted and the stream fails;
\* otherwise characters are extracted up to and including the delimiter (or
\* up to the end), the delimiter is dropped, and the call succeeds.
getline(s, pos, delim) ==
    IF pos > Len(s)
    THEN [ok |-> FALSE, token |-> Empty, pos |-> pos]
    ELSE LET stop == FindDelim(s, pos, delim)
         IN  [ok |-> TRUE, token |-> SubSeq(s, pos, stop - 1), pos |-> stop + 1]

\* ------------------------------------------------------ std::vector
\* mutant: an element already present is not stored again
push_back_unique(d, element) ==
    IF \E i \in 1..Len(d) : d[i] = element THEN d ELSE Append(d, element)

push_back(d, element) == Append(d, element)

\* mutant: resize never discards entries
vec_resize_keep(d, newSize) ==
    IF newSize < Len(d) THEN d
    ELSE [i \in 1..newSize |-> IF i <= Len(d) THEN d[i] ELSE Empty]

\* mutant: growth only reserves room and adds no entry (resize taken for
\* reserve)
vec_resize_reserve(d, newSize) ==
    IF newSize > Len(d) THEN d ELSE SubSeq(d, 1, newSize)

\* mutant: growth does not value-initialise the new entries
vec_resize_dirty(d, newSize) ==
    [i \in 1..newSize |-> IF i <= Len(d) THEN d[i] ELSE Four]

vec_resize(d, newSize) ==
    [i \in 1..newSize |-> IF i <= Len(d) THEN d[i] ELSE Empty]

\* mutant: unchecked access, a default string past the end
at_unchecked(d, index) ==
    IF index < Len(d)
    THEN [err |-> "NONE", returned |-> TRUE, val |-> d[index + 1]]
    ELSE [err |-> "NONE", returned |-> TRUE, val |-> Empty]

\* mutant: 1-based access
at_shifted(d, index) ==
    IF index < Len(d)
    THEN [err |-> "NONE", returned |-> TRUE, val |-> d[IF index = 0 THEN 1 ELSE index]]
    ELSE [err |-> "OUT_OF_RANGE", returned |-> FALSE, val |-> Empty]

\* std::vector::at: throws std::out_of_range unless index < size()
at(d, index) ==
    IF index < Len(d)
    THEN [err |-> "NONE", returned |-> TRUE, val |-> d[index + 1]]
    ELSE [err |-> "OUT_OF_RANGE", returned |-> FALSE, val |-> Empty]

\* ------------------------------------------------------ dynArray
\* the while loop of the splitting constructor
RECURSIVE SplitLoop(_, _, _, _)
SplitLoop(str, pos, separator, d) ==
    LET g == getline(str, pos, separator)
    IN  IF g.ok THEN SplitLoop(str, g.pos, separator, push_back(d, g.token)) ELSE d

\* mutant: a split that also emits the token after the last separator, empty
\* or not
RECURSIVE SplitAll(_, _, _)
SplitAll(str, pos, separator) ==
    LET stop == FindDelim(str, pos, separator)
    IN  IF stop > Len(str) THEN <<SubSeq(str, pos, Len(str))>>
        ELSE <<SubSeq(str, pos, stop - 1)>> \o SplitAll(str, stop + 1, separator)

dynArraySplit_all(str, separator) == SplitAll(str, 1, separator)

\* dynArray(const std::string& str, char separator); the unfinished member
\* access "data." on line 31 names no operation and is given no effect
dynArraySplit(str, separator) == SplitLoop(str, 1, separator, <<>>)

\* the range-for loop of print(): every element followed by " "
RECURSIVE PrintLoop(_, _)
PrintLoop(d, i) ==
    IF i > Len(d) THEN <<>> ELSE d[i] \o <<SP>> \o PrintLoop(d, i + 1)

\* mutant: a space only between consecutive elements
RECURSIVE JoinLoop(_, _)
JoinLoop(d, i) ==
    IF i > Len(d) THEN <<>>
    ELSE IF i = Len(d) THEN d[i]
    ELSE d[i] \o <<SP>> \o JoinLoop(d, i + 1)

print_joined(d) == [out |-> JoinLoop(d, 1) \o <<NL>>, err |-> "NONE"]

\* mutant: the loop runs one index too far through the checked accessor
print_overrun(d) == [out |-> PrintLoop(d, 1) \o <<NL>>, err |-> at(d, Len(d)).err]

\* print(): the characters written to std::cout, and the error raised
print(d) == [out |-> PrintLoop(d, 1) \o <<NL>>, err |-> "NONE"]

\* size()
size(d) == Len(d)

\* ------------------------------------------------------ call records
\* call: the most recent call on the object and its arguments
\* res : what that call raised, returned and wrote to std::cout
Call(op, str, ch, n) == [op |-> op, str |-> str, ch |-> ch, n |-> n]
Res(err, returned, val, len, out) ==
    [err |-> err, returned |-> returned, val |-> val, len |-> len, out |-> out]
NoRes == Res("NONE", FALSE, Empty, 0, <<>>)

\* ------------------------------------------------------ Lesson5.cpp, heap
Blocks == {1, 2}
NoBlock == 0
\* an int of an array: set is FALSE until the element is assigned
Unset == [set |-> FALSE, v |-> 0]
IntOf(v) == [set |-> TRUE, v |-> v]
\* values a read of a never-assigned int may give
Indeterminate == {0, 7}

Unallocated == [state |-> "unallocated", size |-> 0, cells |-> <<>>, frees |-> 0]

\* new int[n]: a block not yet handed out, n elements, none assigned
FreshBlock(h) == CHOOSE b \in Blocks :
    h[b].state = "unallocated" /\ \A c \in Blocks : h[c].state = "unallocated" => b <= c
NewArray(h, b, n) ==
    [h EXCEPT ![b] = [state |-> "live", size |-> n,
                      cells |-> [j \in 1..n |-> Unset], frees |-> 0]]

\* delete[] p
DeleteArray(h, b) ==
    [h EXCEPT ![b].state = "freed", ![b].frees = h[b].frees + 1]

\* p[j] names an element of a live array
ValidAccess(h, b, j) == b \in Blocks /\ h[b].state = "live" /\ j < h[b].size

\* the dynArray model leaves this program unstarted
ProgramIdle ==
    /\ pc = "idle"
    /\ m_oldSize = 0
    /\ m_newSize = 0
    /\ heap = [b \in Blocks |-> Unallocated]
    /\ array = NoBlock
    /\ newArr = NoBlock
    /\ loopI = 0
    /\ printed = <<>>
    /\ uninitRead = FALSE
    /\ badAccess = FALSE

\* ------------------------------------------------------ dynArray calls
\* scn follows the calls main() makes on d: 1 after dynArray d("one two
\* three", ' '), 2 after d.add("four"), 3 after d.resize(2); 0 when the
\* mutating calls made so far are not that sequence.
\* base and appends count the calls: base is the argument of the last
\* resize(), or the number of tokens the constructor stored when resize() was
\* never called; appends is the number of add() calls made since.
InitDefault ==
    /\ data = <<>>
    /\ call = Call("dynArray", Empty, "", 0)
    /\ res = NoRes
    /\ scn = 0
    /\ base = 0
    /\ appends = 0
    /\ ProgramIdle

InitSplit ==
    \E str \in Texts, separator \in Separators :
        /\ data = dynArraySplit(str, separator)
        /\ call = Call("dynArraySplit", str, separator, 0)
        /\ res = NoRes
        /\ scn = IF str = MainText1 /\ separator = SP THEN 1 ELSE 0
        /\ base = Len(data)
        /\ appends = 0
        /\ ProgramIdle

Init == InitDefault \/ InitSplit

Add(element) ==
    /\ Len(data) < MaxLen
    /\ data' = push_back(data, element)
    /\ call' = Call("add", element, "", 0)
    /\ res' = NoRes
    /\ scn' = IF scn = 1 /\ element = Four THEN 2 ELSE 0
    /\ base' = base
    /\ appends' = appends + 1
    /\ UNCHANGED rvars

Resize(newSize) ==
    /\ data' = vec_resize(data, newSize)
    /\ call' = Call("resize", Empty, "", newSize)
    /\ res' = NoRes
    /\ scn' = IF scn = 2 /\ newSize = 2 THEN 3 ELSE 0
    /\ base' = newSize
    /\ appends' = 0
    /\ UNCHANGED rvars

SizeCall ==
    /\ call' = Call("size", Empty, "", 0)
    /\ res' = Res("NONE", FALSE, Empty, size(data), <<>>)
    /\ UNCHANGED <<data, scn, base, appends>>
    /\ UNCHANGED rvars

PrintCall ==
    /\ call' = Call("print", Empty, "", 0)
    /\ res' = Res(print(data).err, FALSE, Empty, 0, print(data).out)
    /\ UNCHANGED <<data, scn, base, appends>>
    /\ UNCHANGED rvars

\* mutant: a read past the end grows the vector up to the index (as the
\* operator[] of an associative container would)
IndexRead_grow(index) ==
    LET r == at(data, index)
    IN  /\ call' = Call("index_read", Empty, "", index)
        /\ res' = Res(r.err, r.returned, r.val, 0, <<>>)
        /\ data' = IF index < MaxLen /\ ~r.returned THEN vec_resize(data, index + 1) ELSE data
        /\ UNCHANGED <<scn, base, appends>>
        /\ UNCHANGED rvars

\* operator[] read: std::cout << d[index]
IndexRead(index) ==
    LET r == at(data, index)
    IN  /\ call' = Call("index_read", Empty, "", index)
        /\ res' = Res(r.err, r.returned, r.val, 0, <<>>)
        /\ UNCHANGED <<data, scn, base, appends>>
        /\ UNCHANGED rvars
    /\ UNCHANGED rvars

\* operator[] of the mutable form used as an assignment target: d[index] = value
IndexWrite(index, value) ==
    LET r == at(data, index)
    IN  /\ call' = Call("index_write", value, "", index)
        /\ res' = Res(r.err, r.returned, IF r.returned THEN value ELSE Empty, 0, <<>>)
        /\ data' = IF r.returned THEN [data EXCEPT ![index + 1] = value] ELSE data
        /\ scn' = IF r.returned THEN 0 ELSE scn
        /\ UNCHANGED <<base, appends>>
        /\ UNCHANGED rvars

Next ==
    \/ \E element \in Elements : Add(element)
    \/ \E newSize \in Sizes : Resize(newSize)
    \/ SizeCall
    \/ PrintCall
    \/ \E index \in Indices : IndexRead(index)
    \/ \E index \in Indices, value \in Elements : IndexWrite(index, value)

Spec == Init /\ [][Next]_allvars

\* ------------------------------------------------------ Lesson5.cpp
\* sizes main() uses
MainOldSize == 5
MainNewSize == 10
ArraySizes == 0..MaxArr
Min(a, b) == IF a <= b THEN a ELSE b

\* the dynArray object is not part of this program
DynArrayIdle ==
    /\ data = <<>>
    /\ call = Call("none", Empty, "", 0)
    /\ res = NoRes
    /\ scn = 0
    /\ base = 0
    /\ appends = 0

\* entry of main(): oldSize and newSize are set, nothing is allocated
ResizeInit ==
    /\ DynArrayIdle
    /\ pc = "main_new"
    /\ \/ m_oldSize = MainOldSize /\ m_newSize = MainNewSize
       \/ m_oldSize \in ArraySizes /\ m_newSize \in ArraySizes
    /\ heap = [b \in Blocks |-> Unallocated]
    /\ array = NoBlock
    /\ newArr = NoBlock
    /\ loopI = 0
    /\ printed = <<>>
    /\ uninitRead = FALSE
    /\ badAccess = FALSE

\* int* array = new int[oldSize];
MainNew ==
    /\ UNCHANGED vars
    /\ pc = "main_new"
    /\ LET b == FreshBlock(heap)
       IN  /\ heap' = NewArray(heap, b, m_oldSize)
           /\ array' = b
    /\ loopI' = 0
    /\ pc' = "main_init"
    /\ UNCHANGED <<m_oldSize, m_newSize, newArr, printed, uninitRead, badAccess>>

\* for (i < oldSize) array[i] = i + 1;
MainInitStep ==
    /\ UNCHANGED vars
    /\ pc = "main_init"
    /\ loopI < m_oldSize
    /\ heap' = [heap EXCEPT ![array].cells[loopI + 1] = IntOf(loopI + 1)]
    /\ badAccess' = (badAccess \/ ~ValidAccess(heap, array, loopI))
    /\ loopI' = loopI + 1
    /\ UNCHANGED <<pc, m_oldSize, m_newSize, array, newArr, printed, uninitRead>>

\* resizeArray(&array, oldSize, newSize): int* newArr = new int[newSize];
ResizeNew ==
    /\ UNCHANGED vars
    /\ pc = "main_init"
    /\ loopI >= m_oldSize
    /\ LET b == FreshBlock(heap)
       IN  /\ heap' = NewArray(heap, b, m_newSize)
           /\ newArr' = b
    /\ loopI' = 0
    /\ pc' = "resize_copy"
    /\ UNCHANGED <<m_oldSize, m_newSize, array, printed, uninitRead, badAccess>>

\* for (i < elementsToCopy) newArr[i] = (*arr)[i];
ResizeCopyStep ==
    /\ UNCHANGED vars
    /\ pc = "resize_copy"
    /\ loopI < Min(m_oldSize, m_newSize)
    /\ heap' = [heap EXCEPT ![newArr].cells[loopI + 1] = heap[array].cells[loopI + 1]]
    /\ badAccess' = (badAccess \/ ~ValidAccess(heap, array, loopI)
                               \/ ~ValidAccess(heap, newArr, loopI))
    /\ loopI' = loopI + 1
    /\ UNCHANGED <<pc, m_oldSize, m_newSize, array, newArr, printed, uninitRead>>

\* delete[] *arr;
ResizeDelete ==
    /\ UNCHANGED vars
    /\ pc = "resize_copy"
    /\ loopI >= Min(m_oldSize, m_newSize)
    /\ heap' = DeleteArray(heap, array)
    /\ pc' = "resize_assign"
    /\ UNCHANGED <<m_oldSize, m_newSize, array, newArr, loopI, printed,
                   uninitRead, badAccess>>

\* *arr = newArr; and the return to main
ResizeAssign ==
    /\ UNCHANGED vars
    /\ pc = "resize_assign"
    /\ array' = newArr
    /\ loopI' = 0
    /\ pc' = "main_print"
    /\ UNCHANGED <<m_oldSize, m_newSize, heap, newArr, printed, uninitRead, badAccess>>

\* for (i < newSize) std::cout << array[i] << " ";  an element never assigned
\* holds an indeterminate value
MainPrintStep ==
    /\ UNCHANGED vars
    /\ pc = "main_print"
    /\ loopI < m_newSize
    /\ LET cell == heap[array].cells[loopI + 1]
       IN  /\ \E v \in (IF cell.set THEN {cell.v} ELSE Indeterminate) :
                 printed' = Append(printed, v)
           /\ uninitRead' = (uninitRead \/ ~cell.set)
    /\ badAccess' = (badAccess \/ ~ValidAccess(heap, array, loopI))
    /\ loopI' = loopI + 1
    /\ UNCHANGED <<pc, m_oldSize, m_newSize, heap, array, newArr>>

\* delete[] array; return 0;  (the "++" on line 53 names no operation and is
\* given no effect)
MainDelete ==
    /\ UNCHANGED vars
    /\ pc = "main_print"
    /\ loopI >= m_newSize
    /\ heap' = DeleteArray(heap, array)
    /\ pc' = "done"
    /\ UNCHANGED <<m_oldSize, m_newSize, array, newArr, loopI, printed,
                   uninitRead, badAccess>>

ResizeNext ==
    \/ MainNew
    \/ MainInitStep
    \/ ResizeNew
    \/ ResizeCopyStep
    \/ ResizeDelete
    \/ ResizeAssign
    \/ MainPrintStep
    \/ MainDelete

SpecResize == ResizeInit /\ [][ResizeNext]_allvars

TypeOK ==
    /\ Len(data) <= MaxLen
    /\ res.err \in {"NONE", "OUT_OF_RANGE"}
    /\ scn \in 0..3

\* ====================================================================
\* Properties
\* ====================================================================
IsSplit == call.op = "dynArraySplit"
IsIndex == call.op \in {"index_read", "index_write"}

\* number of occurrences of c in s
Occ(s, c) == Cardinality({i \in 1..Len(s) : s[i] = c})

\* position of the j-th occurrence of c in s; 0 for j = 0, Len(s) + 1 when
\* s has fewer than j occurrences
NthSep(s, c, j) ==
    IF j = 0 THEN 0
    ELSE IF j > Occ(s, c) THEN Len(s) + 1
    ELSE CHOOSE p \in 1..Len(s) : s[p] = c /\ Occ(SubSeq(s, 1, p), c) = j

\* C1 (as stated): splitting text on sep yields (occurrences of sep) + 1
\* tokens, for every text and sep.
C1_CountIsOccPlusOne ==
    IsSplit => Len(data) = Occ(call.str, call.ch) + 1

\* C1 (amended): the count is 0 for the empty text, (occurrences of sep) when
\* text ends with sep, and (occurrences of sep) + 1 otherwise.
C1_CountByConvention ==
    IsSplit =>
        Len(data) = IF call.str = Empty THEN 0
                    ELSE IF call.str[Len(call.str)] = call.ch
                         THEN Occ(call.str, call.ch)
                         ELSE Occ(call.str, call.ch) + 1

C1_Witness ==
    /\ IsSplit
    /\ call.str # Empty
    /\ call.str[Len(call.str)] = call.ch
    /\ Occ(call.str, call.ch) = 2
    /\ Len(data) = 2

\* C2 (as stated): a text without sep, the empty text included, yields
\* exactly one token, equal to text.
C2_NoSepOneToken ==
    IsSplit /\ Occ(call.str, call.ch) = 0 => data = <<call.str>>

\* C2 (amended): a non-empty text without sep yields exactly one token, equal
\* to text; the empty text yields no token.
C2_NoSepNonEmptyOneToken ==
    IsSplit /\ Occ(call.str, call.ch) = 0 =>
        data = IF call.str = Empty THEN <<>> ELSE <<call.str>>

C2_Witness ==
    /\ IsSplit
    /\ Occ(call.str, call.ch) = 0
    /\ Len(call.str) = 2
    /\ data = <<call.str>>

\* C3: operator[] with index >= size() raises OUT_OF_RANGE, returns no value
\* and leaves the vector as it was.
C3_OutOfRangeChecked ==
    [][(call'.op \in {"index_read", "index_write"} /\ call'.n >= Len(data)) =>
          /\ res'.err = "OUT_OF_RANGE"
          /\ ~res'.returned
          /\ data' = data]_vars

C3_Witness ==
    /\ call.op = "index_write"
    /\ call.str = Four
    /\ call.n = 0
    /\ data = <<>>
    /\ res.err = "OUT_OF_RANGE"

\* C4: resize(n) leaves the vector of length n whose entry i is the old entry
\* i where there was one and the empty string elsewhere; resize(size()) changes
\* nothing.
C4_ResizeExact ==
    [][call'.op = "resize" =>
          /\ Len(data') = call'.n
          /\ \A i \in 1..call'.n :
                data'[i] = IF i <= Len(data) THEN data[i] ELSE Empty
          /\ (call'.n = Len(data) => data' = data)]_vars

C4_Witness ==
    /\ call.op = "resize"
    /\ call.n = 4
    /\ data = <<One, Two, Three, Empty>>

\* C5: add(element) leaves the old vector followed by element, whether or not
\* element is already present.
C5_AddAppends ==
    [][call'.op = "add" =>
          /\ Len(data') = Len(data) + 1
          /\ data'[Len(data')] = call'.str
          /\ \A i \in 1..Len(data) : data'[i] = data[i]]_vars

C5_Witness ==
    /\ call.op = "add"
    /\ call.str = Four
    /\ data = <<One, Two, Four, Four>>

\* tokens with one space between consecutive tokens
RECURSIVE SpaceSeparated(_)
SpaceSeparated(d) ==
    IF d = <<>> THEN <<>>
    ELSE IF Len(d) = 1 THEN d[1]
    ELSE d[1] \o <<SP>> \o SpaceSeparated(Tail(d))

\* number of characters print() writes for the first j tokens
RECURSIVE Written(_, _)
Written(d, j) == IF j = 0 THEN 0 ELSE Written(d, j - 1) + Len(d[j]) + 1

\* C6 (as stated): print() writes the tokens with a single space between
\* consecutive tokens and only the line terminator after the last one.
C6_PrintSpaceSeparated ==
    call.op = "print" => res.out = SpaceSeparated(data) \o <<NL>>

\* C6 (amended): print() writes every token followed by one space, the last
\* token included, and then the line terminator: "one two three \n" and
\* "one two and three \n".
C6_PrintSpaceTerminated ==
    call.op = "print" =>
        /\ Len(res.out) = Written(data, Len(data)) + 1
        /\ res.out[Len(res.out)] = NL
        /\ \A j \in 1..Len(data) :
              /\ SubSeq(res.out, Written(data, j - 1) + 1, Written(data, j) - 1) = data[j]
              /\ res.out[Written(data, j)] = SP
        /\ (data = <<One, Two, Three>> =>
              res.out = One \o <<SP>> \o Two \o <<SP>> \o Three \o <<SP, NL>>)
        /\ (data = <<One, Two, AndThree>> =>
              res.out = One \o <<SP>> \o Two \o <<SP>> \o AndThree \o <<SP, NL>>)

C6_Witness ==
    /\ call.op = "print"
    /\ data = <<One, Two, AndThree>>
    /\ res.out = One \o <<SP>> \o Two \o <<SP>> \o AndThree \o <<SP, NL>>

\* C7: from the split of "one two three" on ' ', add("four") and then
\* resize(2) pass through [one,two,three], [one,two,three,four], [one,two];
\* there d[1] is "two" and d[5] raises OUT_OF_RANGE.
C7_MainScenario ==
    /\ (scn = 1 => data = <<One, Two, Three>>)
    /\ (scn = 2 => data = <<One, Two, Three, Four>>)
    /\ (scn = 3 =>
          /\ data = <<One, Two>>
          /\ (call.op = "index_read" /\ call.n = 1 =>
                res.err = "NONE" /\ res.returned /\ res.val = Two)
          /\ (call.op = "index_read" /\ call.n = 5 =>
                res.err = "OUT_OF_RANGE" /\ ~res.returned))

C7_Witness ==
    /\ scn = 3
    /\ call.op = "index_read"
    /\ call.n = 5
    /\ res.err = "OUT_OF_RANGE"
    /\ data = <<One, Two>>

\* C8: operator[] with index < size() returns the entry at index; assigning
\* through it replaces that entry only and keeps the length.
C8_InRangeAccess ==
    [][/\ (call'.op = "index_read" /\ call'.n < Len(data) =>
             /\ res'.err = "NONE"
             /\ res'.returned
             /\ res'.val = data[call'.n + 1]
             /\ data' = data)
       /\ (call'.op = "index_write" /\ call'.n < Len(data) =>
             /\ res'.err = "NONE"
             /\ Len(data') = Len(data)
             /\ data'[call'.n + 1] = call'.str
             /\ \A j \in 1..Len(data) : j # call'.n + 1 => data'[j] = data[j])]_vars

C8_Witness ==
    /\ call.op = "index_write"
    /\ call.n = 1
    /\ call.str = Four
    /\ data = <<One, Four, Three>>

\* C9: a separator at the start of text, and a separator directly after
\* another, each give an empty token at that position, and token j is the
\* text between the (j-1)-th and the j-th separator.
C9_EmptyTokensInOrder ==
    IsSplit =>
        LET s == call.str
            c == call.ch
        IN  /\ (s # Empty /\ s[1] = c => Len(data) >= 1 /\ data[1] = Empty)
            /\ \A i \in 1..(Len(s) - 1) :
                  s[i] = c /\ s[i + 1] = c =>
                      LET k == Occ(SubSeq(s, 1, i), c)
                      IN  Len(data) >= k + 1 /\ data[k + 1] = Empty
            /\ \A j \in 1..Len(data) :
                  data[j] = SubSeq(s, NthSep(s, c, j - 1) + 1, NthSep(s, c, j) - 1)

C9_Witness ==
    /\ IsSplit
    /\ call.str = <<",", ",", "a">>
    /\ call.ch = ","
    /\ data = <<Empty, Empty, <<"a">>>>

C11_ReadsKeepData ==
    [][call'.op \in {"size", "print", "index_read"} =>
          /\ data' = data
          /\ size(data') = size(data)
          /\ print(data').out = print(data).out
          /\ \A index \in Indices : at(data', index) = at(data, index)]_vars

C11_Witness ==
    /\ call.op = "index_read"
    /\ call.n = 3
    /\ res.err = "OUT_OF_RANGE"
    /\ data = <<One, Two, Three>>

\* tokens joined with the character c between consecutive tokens
RECURSIVE JoinWith(_, _)
JoinWith(d, c) ==
    IF d = <<>> THEN <<>>
    ELSE IF Len(d) = 1 THEN d[1]
    ELSE d[1] \o <<c>> \o JoinWith(Tail(d), c)

EndsWith(s, c) == s # Empty /\ s[Len(s)] = c

\* C12: the tokens joined with sep give text, without its final sep when it
\* ends with one; no token contains sep; the count is 0 for the empty text,
\* (occurrences) when text ends with sep and (occurrences) + 1 otherwise; the
\* last token of a text ending with sep is the text before that sep.
C12_SplitConvention ==
    IsSplit =>
        LET s == call.str
            c == call.ch
        IN  /\ JoinWith(data, c) =
                  IF EndsWith(s, c) THEN SubSeq(s, 1, Len(s) - 1) ELSE s
            /\ \A j \in 1..Len(data) : Occ(data[j], c) = 0
            /\ (s = Empty => Len(data) = 0)
            /\ (EndsWith(s, c) => Len(data) = Occ(s, c))
            /\ (s # Empty /\ ~EndsWith(s, c) => Len(data) = Occ(s, c) + 1)
            /\ (EndsWith(s, c) =>
                  data[Len(data)] =
                      SubSeq(s, NthSep(s, c, Occ(s, c) - 1) + 1, Len(s) - 1))

C12_Witness ==
    /\ IsSplit
    /\ call.str = <<"a", ",", ",">>
    /\ call.ch = ","
    /\ data = <<<<"a">>, Empty>>

\* C13: size() is the argument of the most recent resize() plus the number of
\* add() calls since, or, without a resize(), the number of tokens stored at
\* construction plus the number of add() calls; no other call changes it.
C13_LengthAccounting ==
    /\ size(data) = base + appends
    /\ (call.op = "size" => res.len = base + appends)

C13_Witness ==
    /\ base = 2
    /\ appends = 2
    /\ call.op = "index_write"
    /\ res.err = "OUT_OF_RANGE"
    /\ size(data) = 4

\* the array main() made and the one resizeArray made
OldArray == 1
ResizedArray == 2
IsMainRun == m_oldSize = MainOldSize /\ m_newSize = MainNewSize
AfterResize == pc \in {"main_print", "done"}

\* C14, resizeArray: *arr becomes a newly allocated array of newSize elements
\* whose first min(oldSize, newSize) elements are those of the old array; the
\* old array is released exactly once and never accessed afterwards.
C14_ResizeArrayContract ==
    /\ ~badAccess
    /\ \A b \in Blocks : heap[b].frees <= 1
    /\ (AfterResize =>
          /\ array = ResizedArray
          /\ array = newArr
          /\ heap[array].size = m_newSize
          /\ \A j \in 1..Min(m_oldSize, m_newSize) :
                heap[array].cells[j] = IntOf(j)
          /\ heap[OldArray].state = "freed"
          /\ heap[OldArray].frees = 1)

\* C14, main: every element read for printing was assigned before.
C14_PrintReadsAssigned == IsMainRun => ~uninitRead

\* C14, main: the array main finally frees is the one resizeArray allocated,
\* freed exactly once.
C14_MainFreesResized ==
    pc = "done" =>
        /\ array = ResizedArray
        /\ heap[ResizedArray].state = "freed"
        /\ heap[ResizedArray].frees = 1

\* C14 (as stated): resizeArray keeps its contract, main prints only elements
\* that were assigned, and main frees the resized array exactly once.
C14_ResizeAndMainSafe ==
    /\ C14_ResizeArrayContract
    /\ C14_PrintReadsAssigned
    /\ C14_MainFreesResized

\* elements of the resized array that main() prints
C14_PrintedUnassigned ==
    /\ IsMainRun
    /\ pc = "done"
    /\ uninitRead
    /\ Len(printed) = MainNewSize
    /\ SubSeq(printed, 1, MainOldSize) = <<1, 2, 3, 4, 5>>
====
